---- MODULE Spec2Model ----
(***************************************************************************)
(* Model of the FBI wanted-list aggregator (src/server/api/routers/fbi.ts):*)
(* fetchWithRetry, one task per page, and the getAllWithImages query that  *)
(* fetches page 1, fans the remaining pages out in batches and transforms  *)
(* the collected items.                                                    *)
(*                                                                         *)
(* Strings are sequences of one-character strings, so that concatenation   *)
(* and String.includes are computed.  A nullable value is a sequence of    *)
(* length at most one: <<>> is null, <<v>> is the value v.                 *)
(***************************************************************************)
EXTENDS Integers, Sequences, FiniteSets, TLC

\* ------------------------------------------------------------ bounds ----
\* Page count of the long listing (more pages than one batch holds).
MaxPages == 7
\* Number of 429 answers the upstream gives while a short listing is read.
Max429 == 6
\* Number of failing answers other than 429 while a short listing is read.
MaxFatal == 2
MaxCards == 2
MaxReloads == 1
\* The same two budgets while the long listing is read.
Wide429 == 2
WideFatal == 1

\* --------------------------------------------------------- constants ----
MAX_RETRIES == 5
INITIAL_DELAY_MS == 1000
BATCH_SIZE == 5
pageSize == 50
FIRST_PAGE == 1

\* ----------------------------------------------------------- strings ----
NULL == <<>>
Some(v) == <<v>>

Min(a, b) == IF a < b THEN a ELSE b

RECURSIVE Pow2(_)
Pow2(n) == IF n = 0 THEN 1 ELSE 2 * Pow2(n - 1)

DigitChar(d) == <<"0", "1", "2", "3", "4", "5", "6", "7", "8", "9">>[d + 1]

\* String(n) of a non-negative integer.
RECURSIVE String(_)
String(n) == IF n < 10 THEN <<DigitChar(n)>>
             ELSE String(n \div 10) \o <<DigitChar(n % 10)>>

\* s.includes(sub)
Includes(s, sub) ==
    \E i \in 1..(Len(s) - Len(sub) + 1) : SubSeq(s, i, i + Len(sub) - 1) = sub

\* JavaScript truthiness of a nullable string: neither null nor "".
TruthyNotNull(o) == o # NULL
Truthy(o) == o # NULL /\ o[1] # <<>>

\* Math.ceil(a / b) for a >= 0, b > 0.
Ceil(a, b) == IF a % b = 0 THEN a \div b ELSE (a \div b) + 1

ErrorPrefix == <<"F","B","I"," ","A","P","I"," ","e","r","r","o","r",":"," ">>
TimedOutMessage == <<"F","B","I"," ","A","P","I"," ","r","e","q","u","e","s","t",
                     " ","t","i","m","e","d"," ","o","u","t">>
SiteOrigin == <<"h","t","t","p","s",":","/","/","w","w","w",".","f","b","i",
                ".","g","o","v">>
Unknown == <<"U","n","k","n","o","w","n">>
Str429 == <<"4","2","9">>

\* ---------------------------------------------------------- upstream ----
Pages == 1..(MaxPages + 1)

\* Totals the upstream may report (NULL: the field is missing): the short
\* listings, of at most 3 pages, and the long one.
ShortTotals == {NULL, Some(0), Some(1), Some(pageSize), Some(pageSize + 1), Some(120)}
WideTotal == Some(pageSize * MaxPages - 30)

\* An upstream: the total it reports and how often it may fail.
Upstreams ==
    [total : ShortTotals, limit429 : {Max429}, limitFatal : {MaxFatal}]
    \cup [total : {WideTotal}, limit429 : {Wide429}, limitFatal : {WideFatal}]

\* Reason phrases of a response.
StatusTexts == { <<>>,
                 <<"E","r","r","o","r">>,
                 <<"4","2","9"," ","u","p","s","t","r","e","a","m">> }

\* Messages of the SyntaxError thrown by response.json(); the second one
\* quotes the start of a body that holds the digits 429.
ParseMessages == { <<"U","n","e","x","p","e","c","t","e","d"," ","e","n","d">>,
                   <<"U","n","e","x","p","e","c","t","e","d"," ","4","2","9">> }

NetworkMessage == <<"f","e","t","c","h"," ","f","a","i","l","e","d">>

FailureStatuses == {404, 500}

\* What one HTTP call can end in: a response (a 200 with a body that parses
\* or not, a 429, another failure status), the 30 s abort, or a network error.
Outcomes ==
    [kind : {"http"}, status : {200}, text : {<<>>}, json : {TRUE}, parseMsg : {<<>>}]
    \cup [kind : {"http"}, status : {200}, text : {<<>>}, json : {FALSE},
          parseMsg : ParseMessages]
    \cup [kind : {"http"}, status : {429}, text : {<<>>}, json : {FALSE},
          parseMsg : {<<>>}]
    \cup [kind : {"http"}, status : FailureStatuses, text : StatusTexts,
          json : {FALSE}, parseMsg : {<<>>}]
    \cup [kind : {"timeout", "network"}, status : {0}, text : {<<>>},
          json : {FALSE}, parseMsg : {<<>>}]

\* The records of page p.  An images array is NULL or Some of a sequence
\* whose entries are NULL or Some(WantedImage).
\*   1: complete: one image, a title, a path
\*   2: no usable first image (what is missing depends on p)
\*   3: no path and no title, a pathId
\*   4: two images, an empty path, a pathId, an empty title
\*   5: an image but no usable path or pathId (which is empty depends on p)
\*   6: a first image without original, a usable second image
Tag(c, p, i) == <<c>> \o String(p) \o <<"-">> \o String(i)
Image(p, i) == [original |-> Some(Tag("i", p, i)), caption |-> NULL]
NoOriginal == [original |-> NULL, caption |-> NULL]
EmptyOriginal == [original |-> Some(<<>>), caption |-> NULL]
Person(p, i) ==
    [title  |-> CASE i = 3 -> NULL
                  [] i = 4 -> Some(<<>>)
                  [] OTHER -> Some(Tag("t", p, i)),
     images |-> CASE i = 2 -> (CASE p % 5 = 0 -> NULL
                                 [] p % 5 = 1 -> Some(<<>>)
                                 [] p % 5 = 2 -> Some(<<Some(NoOriginal)>>)
                                 [] p % 5 = 3 -> Some(<<Some(EmptyOriginal)>>)
                                 [] OTHER     -> Some(<<NULL>>))
                  [] i = 4 -> Some(<<Some(Image(p, i)), Some(Image(p, 0))>>)
                  [] i = 6 -> Some(<<Some(NoOriginal), Some(Image(p, i))>>)
                  [] OTHER -> Some(<<Some(Image(p, i))>>),
     path   |-> CASE i = 3 -> NULL
                  [] i = 4 -> Some(<<>>)
                  [] i = 5 -> (IF p % 3 = 1 THEN Some(<<>>) ELSE NULL)
                  [] OTHER -> Some(<<"/">> \o Tag("p", p, i)),
     pathId |-> CASE i \in {3, 4} -> Some(Tag("#", p, i))
                  [] i = 5 -> (IF p % 3 = 2 THEN Some(<<>>) ELSE NULL)
                  [] OTHER -> NULL]
ItemsOf(p) == <<Person(p, 1), Person(p, 2), Person(p, 3), Person(p, 4),
                Person(p, 5), Person(p, 6)>>

\* Every shape of a raw record, for the transformer taken alone.
ImageLists ==
    {NULL, Some(<<>>), Some(<<NULL>>), Some(<<Some(NoOriginal)>>),
     Some(<<Some(EmptyOriginal)>>), Some(<<Some(Image(0, 1))>>),
     Some(<<Some(Image(0, 1)), Some(Image(0, 2))>>),
     Some(<<Some(NoOriginal), Some(Image(0, 2))>>)}
Texts(c) == {NULL, Some(<<>>), Some(<<c>>)}
RawRecords ==
    [title : Texts("t"), images : ImageLists, path : Texts("/"), pathId : Texts("#")]

\* WantedResultSet
ResultSet(t, p) == [total |-> t, page |-> p, items |-> ItemsOf(p)]

\* ------------------------------------------------------------- state ----
VARIABLES
    pc,              \* position of the getAllWithImages query
    st,              \* per page: state of its fetchWithRetry task
    attempt,         \* per page: fetchWithRetry's attempt counter
    data,            \* per page: the WantedResultSet the task returned, or NULL
    started,         \* per page: number of fetchWithRetry invocations
    calls,           \* per page: number of fetch() calls made
    answers429,      \* per page: number of those calls answered 429
    last,            \* per page: how the latest fetch() call ended
    delays,          \* per page: the backoff delays slept, in order
    aborted,         \* per page: controller.abort() was called for the latest call
    requests,        \* the query parameters of the fetch() calls made so far
    firstPageData,   \* result of the page-1 fetch, or NULL
    totalPages,
    batchStart,
    batchEnd,
    remainingPages,  \* WantedResultSet[] of the later pages
    failedPages,     \* number[]
    result,          \* NULL until the query returns Some(WantedPersonSummary[])
    error,           \* "none" until the query throws
    shortfall,       \* NULL, or Some(missingCount) once the warning is logged
    upstream,        \* the upstream listing: its total and failure budgets
    input,           \* the input of the query: NULL, or Some of a record
    count429,        \* 429 answers given by the upstream so far
    countFatal,      \* other failing answers given by the upstream so far
    rawRecord,       \* the raw record handed to the transformer taken alone
    summary,         \* what the transformer made of it (NULL: skipped)
    via,             \* which transformer ran: "none", "server", "client"
    imageLoaded,     \* per card: the imageLoaded state
    imageError,      \* per card: the imageError state
    img,             \* per card: the <img> element: "none", "loading", "complete"
    natural,         \* per card: naturalWidth and naturalHeight of the <img>
    imgEvent,        \* per card: the event waiting to be dispatched on the <img>
    effectDue,       \* per card: the effect has to run (mount, new imageUrl)
    dirty,           \* per card: state was set since the last render
    shown,           \* per card: what the last render returned
    reloads,         \* per card: renders with a new person so far
    loader,          \* which Home runs: "batched" (page.tsx), "sequential"
    homePc,          \* position of fetchAllWantedPersons
    loading,         \* Home's loading state
    homeError,       \* Home's error state: NULL or Some(kind of message)
    wantedPersons,   \* Home's wantedPersons state: the pages it was built from
    homeItems,       \* the pages whose items are in allItems
    rateLimited,     \* the rateLimited flag
    homeTotalPages,  \* totalPages of the loader
    homeBatchStart,  \* batchStart of the loader
    homeBatchEnd,    \* batchEnd of the loader
    homePageNum,     \* pageNum of the sequential loader
    homeSt,          \* per page: "idle", "inflight", "value", "null", "rejected"
    seen429          \* some response to the loader had status 429

taskVars == <<st, attempt, data, started, calls, answers429, last, delays,
              aborted, requests>>
queryVars == <<pc, firstPageData, totalPages, batchStart, batchEnd,
               remainingPages, failedPages, result, error, shortfall>>
envVars == <<upstream, input, count429, countFatal>>
unitVars == <<rawRecord, summary, via>>
cardVars == <<imageLoaded, imageError, img, natural, imgEvent, effectDue, dirty,
              shown, reloads>>
homeVars == <<loader, homePc, loading, homeError, wantedPersons, homeItems,
              rateLimited, homeTotalPages, homeBatchStart, homeBatchEnd, homePageNum,
              homeSt, seen429>>
uiVars == <<cardVars, homeVars>>
vars == <<taskVars, queryVars, envVars, unitVars, uiVars>>

\* ---------------------------------------------------- fetchWithRetry ----
\* while (attempt <= maxRetries)
LoopContinues(att, maxRetries) == att <= maxRetries

\* const delayMs = INITIAL_DELAY_MS * Math.pow(2, attempt)
DelayMsLinear(att) == INITIAL_DELAY_MS * (att + 1)
DelayMs(att) == INITIAL_DELAY_MS * Pow2(att)

\* The branch taken on response.status === 429.
RateLimitedThrows(att, maxRetries) == IF att < maxRetries THEN "retry" ELSE "throw"
RateLimited(att, maxRetries) == IF att < maxRetries THEN "retry" ELSE "null"

\* The catch block, for an Error with the given name and message.
CatchBlockRetriesAbort(name, message, att, maxRetries) ==
    IF name # "AbortError" /\ ~Includes(message, Str429) THEN "throw"
    ELSE IF att < maxRetries THEN "retry"
    ELSE "null"

CatchBlock(name, message, att, maxRetries) ==
    IF name = "AbortError" THEN "throw"
    ELSE IF ~Includes(message, Str429) THEN "throw"
    ELSE IF att < maxRetries THEN "retry"
    ELSE "null"

\* `FBI API error: ${response.status} ${response.statusText}`
StatusErrorMessage(status, text) == ErrorPrefix \o String(status) \o <<" ">> \o text

\* response.ok
ResponseOk(status) == status \in 200..299

\* What one pass of the loop body does with the outcome r of its fetch()
\* call: "return" the parsed page, "retry" after the backoff delay, return
\* "null", or "throw".
LoopBody(r, att, maxRetries) ==
    IF r.kind = "timeout" THEN CatchBlock("AbortError", <<>>, att, maxRetries)
    ELSE IF r.kind = "network" THEN CatchBlock("TypeError", NetworkMessage, att, maxRetries)
    ELSE IF r.status = 429 THEN RateLimited(att, maxRetries)
    ELSE IF ~ResponseOk(r.status)
         THEN CatchBlock("Error", StatusErrorMessage(r.status, r.text), att, maxRetries)
    ELSE IF r.json THEN "return"
    ELSE CatchBlock("SyntaxError", r.parseMsg, att, maxRetries)

\* How the call ended, as recorded in last.
KindOf(r) ==
    IF r.kind # "http" THEN r.kind
    ELSE IF r.status = 429 THEN "429"
    ELSE IF ~ResponseOk(r.status) THEN "status"
    ELSE IF r.json THEN "ok"
    ELSE "parse"

\* controller.abort() runs for this outcome: in the 30 s timer callback, or
\* in the catch block that every error passes through.
Aborts(r) == KindOf(r) \notin {"ok", "429"}

Settled(s) == s \in {"ok", "null", "thrown"}
InFlight(s) == s \in {"inflight", "backoff"}

\* The inputs of the query: none, a null filter, an empty one, a filter.
Inputs == {NULL,
           Some([poster_classification |-> NULL]),
           Some([poster_classification |-> Some(<<>>)]),
           Some([poster_classification |-> Some(<<"t","e","n">>)])}

\* baseParams: pageSize, and poster_classification when it is truthy (NULL
\* stands for a parameter that is left out).
BaseParams(in) ==
    [pageSize |-> String(pageSize),
     poster_classification |->
        IF in # NULL /\ Truthy(in[1].poster_classification)
        THEN in[1].poster_classification ELSE NULL]

\* new URLSearchParams({ ...baseParams, page: String(pageNum) })
RequestUnfiltered(in, pageNum) ==
    [pageSize |-> BaseParams(in).pageSize,
     poster_classification |->
        IF pageNum = FIRST_PAGE THEN BaseParams(in).poster_classification ELSE NULL,
     page |-> String(pageNum)]
Request(in, pageNum) ==
    [pageSize |-> BaseParams(in).pageSize,
     poster_classification |-> BaseParams(in).poster_classification,
     page |-> String(pageNum)]

\* A fetchWithRetry call for page p is made: it runs up to its first fetch().
StartFetch(P) ==
    /\ st' = [p \in Pages |-> IF p \in P THEN "inflight" ELSE st[p]]
    /\ attempt' = [p \in Pages |-> IF p \in P THEN 0 ELSE attempt[p]]
    /\ data' = [p \in Pages |-> IF p \in P THEN NULL ELSE data[p]]
    /\ started' = [p \in Pages |-> IF p \in P THEN started[p] + 1 ELSE started[p]]
    /\ calls' = [p \in Pages |-> IF p \in P THEN calls[p] + 1 ELSE calls[p]]
    /\ delays' = [p \in Pages |-> IF p \in P THEN <<>> ELSE delays[p]]
    /\ answers429' = [p \in Pages |-> IF p \in P THEN 0 ELSE answers429[p]]
    /\ last' = [p \in Pages |-> IF p \in P THEN "none" ELSE last[p]]
    /\ aborted' = [p \in Pages |-> IF p \in P THEN FALSE ELSE aborted[p]]
    /\ requests' = requests \cup {Request(input, p) : p \in P \cap Pages}

\* The task of page p is suspended in await fetch(): each task is a promise
\* of its own, and the backoff of another one (await new Promise(resolve =>
\* setTimeout(resolve, delayMs))) does not keep it from resuming.
AwaitsFetchSerial(p) ==
    st[p] = "inflight" /\ \A q \in Pages \ {p} : st[q] # "backoff"
AwaitsFetch(p) == st[p] = "inflight"

\* The fetch() call of page p's task ends with outcome r.
Respond(p) ==
    /\ AwaitsFetch(p)
    /\ UNCHANGED <<unitVars, uiVars>>
    /\ \E r \in Outcomes :
        LET kind == KindOf(r)
            step == LoopBody(r, attempt[p], MAX_RETRIES)
        IN  /\ kind = "429" => count429 < upstream.limit429
            /\ kind \notin {"429", "ok"} => countFatal < upstream.limitFatal
            /\ count429' = IF kind = "429" THEN count429 + 1 ELSE count429
            /\ countFatal' = IF kind \notin {"429", "ok"} THEN countFatal + 1
                             ELSE countFatal
            /\ last' = [last EXCEPT ![p] = kind]
            /\ aborted' = [aborted EXCEPT ![p] = Aborts(r)]
            /\ answers429' = [answers429 EXCEPT
                                ![p] = IF kind = "429" THEN @ + 1 ELSE @]
            /\ st' = [st EXCEPT ![p] =
                        CASE step = "return" -> "ok"
                          [] step = "retry"  -> "backoff"
                          [] step = "null"   -> "null"
                          [] OTHER           -> "thrown"]
            /\ data' = [data EXCEPT ![p] =
                          IF step = "return" THEN Some(ResultSet(upstream.total, p)) ELSE NULL]
            /\ delays' = [delays EXCEPT ![p] =
                            IF step = "retry" THEN Append(@, DelayMs(attempt[p]))
                            ELSE @]
    /\ upstream' = upstream
    /\ UNCHANGED <<attempt, started, calls, requests, input, queryVars>>

\* The backoff timer of page p's task fires: attempt++; continue.
TimerFires(p) ==
    /\ st[p] = "backoff"
    /\ UNCHANGED <<unitVars, uiVars>>
    /\ attempt' = [attempt EXCEPT ![p] = @ + 1]
    /\ IF LoopContinues(attempt[p] + 1, MAX_RETRIES)
       THEN /\ st' = [st EXCEPT ![p] = "inflight"]
            /\ calls' = [calls EXCEPT ![p] = @ + 1]
            /\ aborted' = [aborted EXCEPT ![p] = FALSE]
            /\ requests' = requests \cup {Request(input, p)}
       ELSE /\ st' = [st EXCEPT ![p] = "null"]
            /\ UNCHANGED <<calls, aborted, requests>>
    /\ UNCHANGED <<data, started, answers429, last, delays, queryVars, envVars>>

\* -------------------------------------------------- getAllWithImages ----
\* person.path ? `https://www.fbi.gov${person.path}` : person.pathId ?? ""
DetailUrlNullish(person) ==
    IF person.path # NULL THEN SiteOrigin \o person.path[1]
    ELSE IF person.pathId # NULL THEN person.pathId[1]
    ELSE <<>>
DetailUrl(person) ==
    IF Truthy(person.path) THEN SiteOrigin \o person.path[1]
    ELSE IF person.pathId # NULL THEN person.pathId[1]
    ELSE <<>>

\* person.title ?? "Unknown"
NameFalsy(person) == IF Truthy(person.title) THEN person.title[1] ELSE Unknown
Name(person) == IF person.title # NULL THEN person.title[1] ELSE Unknown

\* The filter-and-transform loop body: NULL when the person is skipped.
Transform(person) ==
    IF person.images = NULL \/ Len(person.images[1]) = 0 THEN NULL
    ELSE LET image == person.images[1][1]
             detailUrl == DetailUrl(person)
         IN  IF image = NULL THEN NULL
             ELSE IF ~Truthy(image[1].original) THEN NULL
             ELSE IF detailUrl = <<>> THEN NULL
             ELSE Some([image |-> image[1],
                        name |-> Name(person),
                        detailUrl |-> detailUrl])

\* transformPerson of the client page: the same steps, written apart.
TransformPerson(person) ==
    IF person.images = NULL \/ Len(person.images[1]) = 0 THEN NULL
    ELSE LET image == person.images[1][1]
             detailUrl == IF Truthy(person.path) THEN SiteOrigin \o person.path[1]
                          ELSE IF person.pathId # NULL THEN person.pathId[1]
                          ELSE <<>>
         IN  IF image = NULL \/ ~Truthy(image[1].original) THEN NULL
             ELSE IF detailUrl = <<>> THEN NULL
             ELSE Some([image |-> image[1],
                        name |-> IF person.title # NULL THEN person.title[1]
                                 ELSE Unknown,
                        detailUrl |-> detailUrl])

RECURSIVE TransformAll(_)
TransformAll(items) ==
    IF items = <<>> THEN <<>>
    ELSE Transform(Head(items)) \o TransformAll(Tail(items))

\* remainingPages.flatMap((pageResponse) => pageResponse.items ?? [])
RECURSIVE FlatItems(_)
FlatItems(pages) ==
    IF pages = <<>> THEN <<>>
    ELSE Head(pages).items \o FlatItems(Tail(pages))

\* Math.ceil((firstPageData.total ?? 0) / pageSize)
TotalPagesExtra(total) == (IF total = NULL THEN 0 ELSE total[1]) \div pageSize + 1
TotalPagesFloor(total) == (IF total = NULL THEN 0 ELSE total[1]) \div pageSize
TotalPages(total) == Ceil(IF total = NULL THEN 0 ELSE total[1], pageSize)

\* if (!firstPageData)
FirstPageMissingIgnored(d) == FALSE
FirstPageMissing(d) == d = NULL

\* firstPageData.total and firstPageData.items ?? [] (d is not null where
\* the code reads them: the query has thrown before).
TotalOf(d) == IF d = NULL THEN NULL ELSE d[1].total
ItemsOrEmpty(d) == IF d = NULL THEN <<>> ELSE d[1].items

\* const batchEnd = Math.min(batchStart + BATCH_SIZE, totalPages)
BatchEndUnbounded(start, total) == total
BatchEnd(start, total) == Min(start + BATCH_SIZE, total)

\* batchStart += BATCH_SIZE
NextBatchStartOverlaps(start) == start + BATCH_SIZE - 1
NextBatchStart(start) == start + BATCH_SIZE

\* The page numbers of one batch: pageNum = batchStart + i + 1.
BatchPages(start, end) == {start + i + 1 : i \in 0..(end - start - 1)}

\* await Promise.allSettled(batchPromises) resumes.
BatchAnySettled(P) == \E p \in P : Settled(st[p])
BatchAllFulfilled(P) == \A p \in P : st[p] = "ok"
BatchSettled(P) == \A p \in P : Settled(st[p])

\* The query is called: it builds the first-page URL and awaits the fetch.
FirstRequestEager == {FIRST_PAGE, FIRST_PAGE + 1}
FirstRequest == {FIRST_PAGE}

Query ==
    /\ pc = "idle"
    /\ UNCHANGED shortfall
    /\ UNCHANGED <<unitVars, uiVars>>
    /\ StartFetch(FirstRequest)
    /\ pc' = "firstPage"
    /\ UNCHANGED <<firstPageData, totalPages, batchStart, batchEnd,
                   remainingPages, failedPages, result, error, envVars>>

\* await fetchWithRetry(firstPageUrl) resumes: the rejection propagates, a
\* null is turned into an Error, a page sets totalPages and enters the loop.
FirstPageSettled ==
    /\ pc = "firstPage"
    /\ UNCHANGED shortfall
    /\ UNCHANGED <<unitVars, uiVars>>
    /\ Settled(st[FIRST_PAGE])
    /\ IF st[FIRST_PAGE] = "thrown"
       THEN /\ pc' = "failed"
            /\ error' = "fetch error"
            /\ UNCHANGED <<firstPageData, totalPages, batchStart>>
       ELSE /\ firstPageData' = data[FIRST_PAGE]
            /\ IF FirstPageMissing(data[FIRST_PAGE])
               THEN /\ pc' = "failed"
                    /\ error' = "first page failed after retries"
                    /\ UNCHANGED <<totalPages, batchStart>>
               ELSE /\ pc' = "loop"
                    /\ totalPages' = TotalPages(TotalOf(data[FIRST_PAGE]))
                    /\ batchStart' = 1
                    /\ UNCHANGED error
    /\ UNCHANGED <<taskVars, batchEnd, remainingPages, failedPages, result, envVars>>

\* One pass of the for loop up to its await: the fetches of a batch are made.
IssueBatch ==
    /\ pc = "loop"
    /\ UNCHANGED shortfall
    /\ UNCHANGED <<unitVars, uiVars>>
    /\ batchStart < totalPages
    /\ LET end == BatchEnd(batchStart, totalPages)
       IN  /\ batchEnd' = end
           /\ StartFetch(BatchPages(batchStart, end))
    /\ pc' = "awaitBatch"
    /\ UNCHANGED <<firstPageData, totalPages, batchStart, remainingPages,
                   failedPages, result, error, envVars>>

\* for (const result of batchResults): pages in ascending order.
RECURSIVE CollectRejectedAsFailed(_, _, _)
CollectRejectedAsFailed(p, end, acc) ==
    IF p > end THEN acc
    ELSE CollectRejectedAsFailed(p + 1, end,
            IF ~Settled(st[p]) THEN acc
            ELSE IF data[p] # NULL
                 THEN [acc EXCEPT !.pages = Append(@, data[p][1])]
                 ELSE [acc EXCEPT !.failed = Append(@, p)])

RECURSIVE CollectPrepends(_, _, _)
CollectPrepends(p, end, acc) ==
    IF p > end THEN acc
    ELSE CollectPrepends(p + 1, end,
            IF st[p] = "thrown" \/ ~Settled(st[p]) THEN acc
            ELSE IF data[p] # NULL
                 THEN [acc EXCEPT !.pages = <<data[p][1]>> \o @]
                 ELSE [acc EXCEPT !.failed = Append(@, p)])

RECURSIVE CollectSkipsFailed(_, _, _)
CollectSkipsFailed(p, end, acc) ==
    IF p > end THEN acc
    ELSE CollectSkipsFailed(p + 1, end,
            IF data[p] # NULL
            THEN [acc EXCEPT !.pages = Append(@, data[p][1])]
            ELSE acc)

RECURSIVE CollectFailsRetried(_, _, _)
CollectFailsRetried(p, end, acc) ==
    IF p > end THEN acc
    ELSE CollectFailsRetried(p + 1, end,
            IF st[p] = "thrown" \/ ~Settled(st[p]) THEN acc
            ELSE IF data[p] # NULL /\ attempt[p] = 0
                 THEN [acc EXCEPT !.pages = Append(@, data[p][1])]
                 ELSE [acc EXCEPT !.failed = Append(@, p)])

RECURSIVE Collect(_, _, _)
Collect(p, end, acc) ==
    IF p > end THEN acc
    ELSE Collect(p + 1, end,
            IF st[p] = "thrown" \/ ~Settled(st[p]) THEN acc
            ELSE IF data[p] # NULL
                 THEN [acc EXCEPT !.pages = Append(@, data[p][1])]
                 ELSE [acc EXCEPT !.failed = Append(@, p)])

\* The await of the batch resumes; results are sorted into remainingPages
\* and failedPages, rejections are only logged; batchStart += BATCH_SIZE.
CollectBatch ==
    /\ pc = "awaitBatch"
    /\ UNCHANGED shortfall
    /\ UNCHANGED <<unitVars, uiVars>>
    /\ BatchSettled(BatchPages(batchStart, batchEnd))
    /\ LET acc == Collect(batchStart + 1, batchEnd,
                          [pages |-> remainingPages, failed |-> failedPages])
       IN  /\ remainingPages' = acc.pages
           /\ failedPages' = acc.failed
    /\ batchStart' = NextBatchStart(batchStart)
    /\ pc' = "loop"
    /\ UNCHANGED <<taskVars, firstPageData, totalPages, batchEnd, result, error,
                   envVars>>

\* The sanity check on the item count: a warning, never a throw.
SanityCheckStrict(count, total) == [warns |-> count < total, throws |-> count # total]
SanityCheckThrows(count, total) == [warns |-> count < total, throws |-> count < total]
SanityCheck(count, total) == [warns |-> count < total, throws |-> FALSE]

\* firstPageData.total ?? 0
TotalOrZero(d) == IF TotalOf(d) = NULL THEN 0 ELSE TotalOf(d)[1]

\* The loop is over: combine the items, log the shortfall if there is one,
\* transform the items, return.
Finish ==
    /\ pc = "loop"
    /\ ~(batchStart < totalPages)
    /\ UNCHANGED <<unitVars, uiVars>>
    /\ LET allItems == ItemsOrEmpty(firstPageData) \o FlatItems(remainingPages)
           total == TotalOrZero(firstPageData)
           check == SanityCheck(Len(allItems), total)
       IN  /\ shortfall' = IF check.warns THEN Some(total - Len(allItems)) ELSE NULL
           /\ IF check.throws
              THEN /\ pc' = "failed"
                   /\ error' = "missing items"
                   /\ UNCHANGED result
              ELSE /\ pc' = "done"
                   /\ result' = Some(TransformAll(allItems))
                   /\ UNCHANGED error
    /\ UNCHANGED <<taskVars, firstPageData, totalPages, batchStart, batchEnd,
                   remainingPages, failedPages, envVars>>

\* ----------------------------------------------------- specification ----
InitQuery ==
    /\ pc = "idle"
    /\ st = [p \in Pages |-> "idle"]
    /\ attempt = [p \in Pages |-> 0]
    /\ data = [p \in Pages |-> NULL]
    /\ started = [p \in Pages |-> 0]
    /\ calls = [p \in Pages |-> 0]
    /\ answers429 = [p \in Pages |-> 0]
    /\ last = [p \in Pages |-> "none"]
    /\ delays = [p \in Pages |-> <<>>]
    /\ aborted = [p \in Pages |-> FALSE]
    /\ requests = {}
    /\ firstPageData = NULL
    /\ totalPages = 0
    /\ batchStart = 0
    /\ batchEnd = 0
    /\ remainingPages = <<>>
    /\ failedPages = <<>>
    /\ result = NULL
    /\ error = "none"
    /\ shortfall = NULL
    /\ count429 = 0
    /\ countFatal = 0

\* No card is on the page.
Cards == 1..MaxCards
Dims == [w : {0, 1}, h : {0, 1}]
NoDims == [w |-> 0, h |-> 0]

InitNoCards ==
    /\ imageLoaded = [c \in Cards |-> FALSE]
    /\ imageError = [c \in Cards |-> FALSE]
    /\ img = [c \in Cards |-> "none"]
    /\ natural = [c \in Cards |-> NoDims]
    /\ imgEvent = [c \in Cards |-> "none"]
    /\ effectDue = [c \in Cards |-> FALSE]
    /\ dirty = [c \in Cards |-> FALSE]
    /\ shown = [c \in Cards |-> "null"]
    /\ reloads = [c \in Cards |-> 0]

\* Home after its first render, before its effect has run.
InitHome ==
    /\ homePc = "mount"
    /\ loading = TRUE
    /\ homeError = NULL
    /\ wantedPersons = <<>>
    /\ homeItems = <<>>
    /\ rateLimited = FALSE
    /\ homeTotalPages = 0
    /\ homeBatchStart = 0
    /\ homeBatchEnd = 0
    /\ homePageNum = 0
    /\ homeSt = [p \in Pages |-> "idle"]
    /\ seen429 = FALSE

Init ==
    /\ InitQuery
    /\ InitNoCards
    /\ InitHome
    /\ loader = "batched"
    /\ upstream \in Upstreams
    /\ input = NULL
    /\ rawRecord = NULL
    /\ summary = NULL
    /\ via = "none"

Next ==
    \/ Query
    \/ FirstPageSettled
    \/ IssueBatch
    \/ CollectBatch
    \/ Finish
    \/ \E p \in Pages : Respond(p)
    \/ \E p \in Pages : TimerFires(p)

Spec == Init /\ [][Next]_vars

\* The scheduling the runtime gives: the query is called, a continuation
\* that can run does run, every HTTP call is answered or cut off by its 30 s
\* timer, and every backoff timer fires.
Fairness ==
    /\ WF_vars(Query)
    /\ WF_vars(FirstPageSettled)
    /\ WF_vars(IssueBatch)
    /\ WF_vars(CollectBatch)
    /\ WF_vars(Finish)
    /\ \A p \in Pages : WF_vars(Respond(p)) /\ WF_vars(TimerFires(p))

\* The listings the fair runs are taken over: the short ones, where a page
\* can use up its retries, and the long one, of two batches, with 429s only.
LiveUpstreams ==
    [total : ShortTotals, limit429 : {Max429}, limitFatal : {MaxFatal}]
    \cup [total : {WideTotal}, limit429 : {Wide429}, limitFatal : {0}]

InitLive ==
    /\ InitQuery
    /\ InitNoCards
    /\ InitHome
    /\ loader = "batched"
    /\ upstream \in LiveUpstreams
    /\ input = NULL
    /\ rawRecord = NULL
    /\ summary = NULL
    /\ via = "none"

SpecLive == InitLive /\ [][Next]_vars /\ Fairness

\* The query called with each input, on listings of 2 and 3 pages.
FilterUpstreams ==
    [total : {Some(pageSize + 1), Some(120)}, limit429 : {Wide429},
     limitFatal : {WideFatal}]

InitFilter ==
    /\ InitQuery
    /\ InitNoCards
    /\ InitHome
    /\ loader = "batched"
    /\ upstream \in FilterUpstreams
    /\ input \in Inputs
    /\ rawRecord = NULL
    /\ summary = NULL
    /\ via = "none"

SpecFilter == InitFilter /\ [][Next]_vars

\* The transformer taken alone: the loop body of getAllWithImages and
\* transformPerson of the client page, each applied to any raw record.
ApplyTransform ==
    /\ via = "none"
    /\ rawRecord # NULL
    /\ summary' = Transform(rawRecord[1])
    /\ via' = "server"
    /\ UNCHANGED <<rawRecord, taskVars, queryVars, envVars, uiVars>>

ApplyTransformPerson ==
    /\ via = "none"
    /\ rawRecord # NULL
    /\ summary' = TransformPerson(rawRecord[1])
    /\ via' = "client"
    /\ UNCHANGED <<rawRecord, taskVars, queryVars, envVars, uiVars>>

InitTransform ==
    /\ InitQuery
    /\ InitNoCards
    /\ InitHome
    /\ loader = "batched"
    /\ upstream = [total |-> NULL, limit429 |-> 0, limitFatal |-> 0]
    /\ input = NULL
    /\ rawRecord \in {Some(x) : x \in RawRecords}
    /\ summary = NULL
    /\ via = "none"

NextTransform == ApplyTransform \/ ApplyTransformPerson

SpecTransform == InitTransform /\ [][NextTransform]_vars

\* ----------------------------------------------- WantedPersonCard ----
\* img.naturalWidth === 0 || img.naturalHeight === 0
ZeroSize(d) == d.w = 0 \/ d.h = 0

\* The state after the load handler or the effect has seen a complete image
\* of size d: setImageError(true), or setImageLoaded(true).
Settle(loaded, err, d) ==
    IF ZeroSize(d) THEN [imageLoaded |-> loaded, imageError |-> TRUE]
    ELSE [imageLoaded |-> TRUE, imageError |-> err]

\* What the component returns: null, or the link with the pulse placeholder
\* over a transparent image, or with the image.
RenderOutputUnlessLoaded(loaded, err) ==
    IF err /\ ~loaded THEN "null" ELSE IF loaded THEN "image" ELSE "placeholder"
RenderOutput(loaded, err) ==
    IF err THEN "null" ELSE IF loaded THEN "image" ELSE "placeholder"

\* The browser finishes loading the image of card c: it is complete with
\* some natural size, and a load or an error event is queued.
BrowserFinishes(c) ==
    /\ img[c] = "loading"
    /\ \E d \in Dims, ev \in {"load", "error"} :
          /\ ev = "error" => d = NoDims
          /\ natural' = [natural EXCEPT ![c] = d]
          /\ imgEvent' = [imgEvent EXCEPT ![c] = ev]
    /\ img' = [img EXCEPT ![c] = "complete"]
    /\ UNCHANGED <<imageLoaded, imageError, effectDue, dirty, shown, reloads>>
    /\ UNCHANGED <<taskVars, queryVars, envVars, unitVars, homeVars>>

\* onLoad
OnLoadEvent(c) ==
    /\ img[c] = "complete"
    /\ imgEvent[c] = "load"
    /\ LET after == Settle(imageLoaded[c], imageError[c], natural[c])
       IN  /\ imageLoaded' = [imageLoaded EXCEPT ![c] = after.imageLoaded]
           /\ imageError' = [imageError EXCEPT ![c] = after.imageError]
           /\ dirty' = [dirty EXCEPT ![c] =
                          @ \/ after.imageLoaded # imageLoaded[c]
                            \/ after.imageError # imageError[c]]
    /\ imgEvent' = [imgEvent EXCEPT ![c] = "none"]
    /\ UNCHANGED <<img, natural, effectDue, shown, reloads>>
    /\ UNCHANGED <<taskVars, queryVars, envVars, unitVars, homeVars>>

\* onError
OnErrorEvent(c) ==
    /\ img[c] = "complete"
    /\ imgEvent[c] = "error"
    /\ imageError' = [imageError EXCEPT ![c] = TRUE]
    /\ dirty' = [dirty EXCEPT ![c] = @ \/ ~imageError[c]]
    /\ imgEvent' = [imgEvent EXCEPT ![c] = "none"]
    /\ UNCHANGED <<imageLoaded, img, natural, effectDue, shown, reloads>>
    /\ UNCHANGED <<taskVars, queryVars, envVars, unitVars, homeVars>>

\* The effect: if (img?.complete) { ... }; imgRef.current is null when the
\* last render returned null.
RunEffect(c) ==
    /\ effectDue[c]
    /\ effectDue' = [effectDue EXCEPT ![c] = FALSE]
    /\ IF img[c] = "complete"
       THEN LET after == Settle(imageLoaded[c], imageError[c], natural[c])
            IN  /\ imageLoaded' = [imageLoaded EXCEPT ![c] = after.imageLoaded]
                /\ imageError' = [imageError EXCEPT ![c] = after.imageError]
                /\ dirty' = [dirty EXCEPT ![c] =
                               @ \/ after.imageLoaded # imageLoaded[c]
                                 \/ after.imageError # imageError[c]]
       ELSE UNCHANGED <<imageLoaded, imageError, dirty>>
    /\ UNCHANGED <<img, natural, imgEvent, shown, reloads>>
    /\ UNCHANGED <<taskVars, queryVars, envVars, unitVars, homeVars>>

\* The <img> after a render that returned out: removed with its pending
\* event when the component returns null; loading anew when the source is new.
Commit(c, out, newSource) ==
    /\ shown' = [shown EXCEPT ![c] = out]
    /\ dirty' = [dirty EXCEPT ![c] = FALSE]
    /\ img' = [img EXCEPT ![c] =
                 IF out = "null" THEN "none"
                 ELSE IF newSource \/ @ = "none" THEN "loading" ELSE @]
    /\ natural' = [natural EXCEPT ![c] =
                     IF out = "null" \/ newSource THEN NoDims ELSE @]
    /\ imgEvent' = [imgEvent EXCEPT ![c] =
                      IF out = "null" \/ newSource THEN "none" ELSE @]

\* The component renders again after a state change.
Render(c) ==
    /\ dirty[c]
    /\ Commit(c, RenderOutput(imageLoaded[c], imageError[c]), FALSE)
    /\ UNCHANGED <<imageLoaded, imageError, effectDue, reloads>>
    /\ UNCHANGED <<taskVars, queryVars, envVars, unitVars, homeVars>>

\* The parent renders the card with a person whose image URL is new: the
\* state is kept, the effect runs again (imageUrl is one of its dependencies).
PropsChange(c) ==
    /\ reloads[c] < MaxReloads
    /\ reloads' = [reloads EXCEPT ![c] = @ + 1]
    /\ Commit(c, RenderOutput(imageLoaded[c], imageError[c]), TRUE)
    /\ effectDue' = [effectDue EXCEPT ![c] = TRUE]
    /\ UNCHANGED <<imageLoaded, imageError>>
    /\ UNCHANGED <<taskVars, queryVars, envVars, unitVars, homeVars>>

\* Each card has been rendered once: nothing is loaded, nothing has failed,
\* the placeholder shows, the effect is about to run.  An image the browser
\* has in its cache is complete already, and its event may have been missed.
InitCards ==
    /\ InitQuery
    /\ InitHome
    /\ loader = "batched"
    /\ upstream = [total |-> NULL, limit429 |-> 0, limitFatal |-> 0]
    /\ input = NULL
    /\ rawRecord = NULL
    /\ summary = NULL
    /\ via = "none"
    /\ imageLoaded = [c \in Cards |-> FALSE]
    /\ imageError = [c \in Cards |-> FALSE]
    /\ img \in [Cards -> {"loading", "complete"}]
    /\ natural \in [Cards -> Dims]
    /\ \A c \in Cards : img[c] = "loading" => natural[c] = NoDims
    /\ imgEvent \in [Cards -> {"none", "load", "error"}]
    /\ \A c \in Cards :
          /\ img[c] = "loading" => imgEvent[c] = "none"
          /\ imgEvent[c] = "error" => natural[c] = NoDims
    /\ effectDue = [c \in Cards |-> TRUE]
    /\ dirty = [c \in Cards |-> FALSE]
    /\ shown = [c \in Cards |-> "placeholder"]
    /\ reloads = [c \in Cards |-> 0]

NextCards ==
    \E c \in Cards :
        \/ BrowserFinishes(c)
        \/ OnLoadEvent(c)
        \/ OnErrorEvent(c)
        \/ RunEffect(c)
        \/ Render(c)
        \/ PropsChange(c)

SpecCards == InitCards /\ [][NextCards]_vars

\* ------------------------------------- Home.fetchAllWantedPersons ----
\* What a fetch() of the loader ends in: a page, a 429, another failure
\* status, a rejection (network error), a body that does not parse.
HomeOutcomes == {"ok", "429", "status", "network", "parse"}

\* response.status === 429
Is429Never(o) == FALSE
Is429(o) == o = "429"

\* How the .then() chain of a batch request settles for outcome o.
ThenSettles(o) ==
    IF o = "network" THEN "rejected"
    ELSE IF Is429(o) THEN "null"
    ELSE IF o = "ok" THEN "value"
    ELSE "rejected"

HomeSettled(s) == s \in {"value", "null", "rejected"}

\* The effect runs: fetchAllWantedPersons() requests page 1.
HomeMount ==
    /\ homePc = "mount"
    /\ homePc' = "firstPage"
    /\ homeSt' = [homeSt EXCEPT ![FIRST_PAGE] = "inflight"]
    /\ UNCHANGED <<loader, loading, homeError, wantedPersons, homeItems, rateLimited,
                   homeTotalPages, homeBatchStart, homeBatchEnd, homePageNum, seen429>>
    /\ UNCHANGED <<taskVars, queryVars, envVars, unitVars, cardVars>>

\* A fetch() of the loader ends.  In a batch the .then() callback runs at
\* once and sets rateLimited on a 429.
HomeRespond(p) ==
    /\ homeSt[p] = "inflight"
    /\ \E o \in HomeOutcomes :
          /\ homeSt' = [homeSt EXCEPT ![p] = ThenSettles(o)]
          /\ seen429' = (seen429 \/ o = "429")
          /\ rateLimited' = (rateLimited \/
                               (homePc = "awaitBatch" /\ Is429(o)))
    /\ UNCHANGED <<loader, homePc, loading, homeError, wantedPersons, homeItems,
                   homeTotalPages, homeBatchStart, homeBatchEnd, homePageNum>>
    /\ UNCHANGED <<taskVars, queryVars, envVars, unitVars, cardVars>>

\* The await of page 1 resumes: a 429 sets the error and returns, any other
\* failure goes to the catch block, a page starts the loop.
HomeFirstPage ==
    /\ homePc = "firstPage"
    /\ HomeSettled(homeSt[FIRST_PAGE])
    /\ IF homeSt[FIRST_PAGE] = "value"
       THEN /\ homePc' = "loop"
            /\ homeTotalPages' = TotalPages(upstream.total)
            /\ homeItems' = <<FIRST_PAGE>>
            /\ wantedPersons' = IF loader = "sequential" THEN <<FIRST_PAGE>>
                                ELSE wantedPersons
            /\ homeBatchStart' = 1
            /\ homePageNum' = 2
            /\ UNCHANGED <<loading, homeError>>
       ELSE /\ homePc' = "done"
            /\ homeError' = IF homeSt[FIRST_PAGE] = "null"
                            THEN Some("rate limited") ELSE Some("thrown")
            /\ loading' = FALSE
            /\ UNCHANGED <<homeTotalPages, homeItems, wantedPersons,
                           homeBatchStart, homePageNum>>
    /\ UNCHANGED <<loader, rateLimited, homeBatchEnd, homeSt, seen429>>
    /\ UNCHANGED <<taskVars, queryVars, envVars, unitVars, cardVars>>

\* batchStart < totalPages && !rateLimited
HomeLoopGuard(start, total, limited) == start < total /\ ~limited

\* page.tsx: the requests of one batch are made.
HomeIssueBatch ==
    /\ loader = "batched"
    /\ homePc = "loop"
    /\ HomeLoopGuard(homeBatchStart, homeTotalPages, rateLimited)
    /\ LET end == BatchEnd(homeBatchStart, homeTotalPages)
       IN  /\ homeBatchEnd' = end
           /\ homeSt' = [p \in Pages |->
                           IF p \in BatchPages(homeBatchStart, end)
                           THEN "inflight" ELSE homeSt[p]]
    /\ homePc' = "awaitBatch"
    /\ UNCHANGED <<loader, loading, homeError, wantedPersons, homeItems, rateLimited,
                   homeTotalPages, homeBatchStart, homePageNum, seen429>>
    /\ UNCHANGED <<taskVars, queryVars, envVars, unitVars, cardVars>>

\* for (const result of batchResults): values are pushed up to the first
\* null, which sets rateLimited and breaks; rejections are passed over.
RECURSIVE HomeCollect(_, _, _)
HomeCollect(p, end, acc) ==
    IF p > end \/ acc.stop THEN acc
    ELSE HomeCollect(p + 1, end,
            IF homeSt[p] = "value" THEN [acc EXCEPT !.items = Append(@, p)]
            ELSE IF homeSt[p] = "null" THEN [acc EXCEPT !.stop = TRUE]
            ELSE acc)

\* page.tsx: the await of the batch resumes; if (rateLimited) break.
HomeCollectBatch ==
    /\ loader = "batched"
    /\ homePc = "awaitBatch"
    /\ \A p \in BatchPages(homeBatchStart, homeBatchEnd) : HomeSettled(homeSt[p])
    /\ LET acc == HomeCollect(homeBatchStart + 1, homeBatchEnd,
                              [items |-> homeItems, stop |-> FALSE])
           limited == rateLimited \/ acc.stop
       IN  /\ homeItems' = acc.items
           /\ rateLimited' = limited
           /\ homeBatchStart' = IF limited THEN homeBatchStart
                                ELSE homeBatchStart + BATCH_SIZE
    /\ homePc' = "loop"
    /\ UNCHANGED <<loader, loading, homeError, wantedPersons, homeTotalPages,
                   homeBatchEnd, homePageNum, homeSt, seen429>>
    /\ UNCHANGED <<taskVars, queryVars, envVars, unitVars, cardVars>>

\* page.tsx: the loop is over: setWantedPersons(result); setLoading(false).
HomeFinish ==
    /\ loader = "batched"
    /\ homePc = "loop"
    /\ ~HomeLoopGuard(homeBatchStart, homeTotalPages, rateLimited)
    /\ wantedPersons' = homeItems
    /\ loading' = FALSE
    /\ homePc' = "done"
    /\ UNCHANGED <<loader, homeError, homeItems, rateLimited, homeTotalPages,
                   homeBatchStart, homeBatchEnd, homePageNum, homeSt, seen429>>
    /\ UNCHANGED <<taskVars, queryVars, envVars, unitVars, cardVars>>

\* The sequential loader: the request of page pageNum is made.
HomeIssuePage ==
    /\ loader = "sequential"
    /\ homePc = "loop"
    /\ homePageNum <= homeTotalPages
    /\ homeSt' = [homeSt EXCEPT ![homePageNum] = "inflight"]
    /\ homePc' = "awaitPage"
    /\ UNCHANGED <<loader, loading, homeError, wantedPersons, homeItems, rateLimited,
                   homeTotalPages, homeBatchStart, homeBatchEnd, homePageNum, seen429>>
    /\ UNCHANGED <<taskVars, queryVars, envVars, unitVars, cardVars>>

\* The sequential loader: the await of the page resumes: a 429 sets the
\* error and returns, another failure goes to the catch block, a page is
\* appended to wantedPersons.
HomePageSettled ==
    /\ loader = "sequential"
    /\ homePc = "awaitPage"
    /\ HomeSettled(homeSt[homePageNum])
    /\ IF homeSt[homePageNum] = "value"
       THEN /\ wantedPersons' = Append(wantedPersons, homePageNum)
            /\ homePageNum' = homePageNum + 1
            /\ homePc' = "loop"
            /\ UNCHANGED <<loading, homeError>>
       ELSE /\ homeError' = IF homeSt[homePageNum] = "null"
                            THEN Some("rate limited, partial") ELSE Some("thrown")
            /\ loading' = FALSE
            /\ homePc' = "done"
            /\ UNCHANGED <<wantedPersons, homePageNum>>
    /\ UNCHANGED <<loader, homeItems, rateLimited, homeTotalPages, homeBatchStart,
                   homeBatchEnd, homeSt, seen429>>
    /\ UNCHANGED <<taskVars, queryVars, envVars, unitVars, cardVars>>

\* The sequential loader: the loop is over: setLoading(false).
HomeFinishSequential ==
    /\ loader = "sequential"
    /\ homePc = "loop"
    /\ ~(homePageNum <= homeTotalPages)
    /\ loading' = FALSE
    /\ homePc' = "done"
    /\ UNCHANGED <<loader, homeError, wantedPersons, homeItems, rateLimited,
                   homeTotalPages, homeBatchStart, homeBatchEnd, homePageNum, homeSt,
                   seen429>>
    /\ UNCHANGED <<taskVars, queryVars, envVars, unitVars, cardVars>>

\* The listings the loader is run on.
HomeUpstreams ==
    [total : ShortTotals \cup {WideTotal}, limit429 : {0}, limitFatal : {0}]

InitHomeSpec ==
    /\ InitQuery
    /\ InitNoCards
    /\ InitHome
    /\ loader \in {"batched", "sequential"}
    /\ upstream \in HomeUpstreams
    /\ input = NULL
    /\ rawRecord = NULL
    /\ summary = NULL
    /\ via = "none"

NextHome ==
    \/ HomeMount
    \/ \E p \in Pages : HomeRespond(p)
    \/ HomeFirstPage
    \/ HomeIssueBatch
    \/ HomeCollectBatch
    \/ HomeFinish
    \/ HomeIssuePage
    \/ HomePageSettled
    \/ HomeFinishSequential

\* The effect runs, every fetch() ends, every continuation that can run does.
HomeFairness ==
    /\ WF_vars(HomeMount)
    /\ \A p \in Pages : WF_vars(HomeRespond(p))
    /\ WF_vars(HomeFirstPage)
    /\ WF_vars(HomeIssueBatch)
    /\ WF_vars(HomeCollectBatch)
    /\ WF_vars(HomeFinish)
    /\ WF_vars(HomeIssuePage)
    /\ WF_vars(HomePageSettled)
    /\ WF_vars(HomeFinishSequential)

SpecHome == InitHomeSpec /\ [][NextHome]_vars /\ HomeFairness

TypeOK ==
    /\ pc \in {"idle", "firstPage", "loop", "awaitBatch", "done", "failed"}
    /\ st \in [Pages -> {"idle", "inflight", "backoff", "ok", "null", "thrown"}]
    /\ attempt \in [Pages -> 0..(MAX_RETRIES + 1)]
    /\ \A p \in Pages : (st[p] = "ok") <=> (data[p] # NULL)

\* ------------------------------------------------------------ claims ----
Range(s) == {s[i] : i \in 1..Len(s)}
LaterPages == Pages \ {FIRST_PAGE}
InFlightPages == {p \in Pages : InFlight(st[p])}

\* The summaries the upstream records of page p give rise to.
Kept(p) == {Transform(ItemsOf(p)[i])[1] :
               i \in {j \in 1..Len(ItemsOf(p)) : Transform(ItemsOf(p)[j]) # NULL}}

\* The fetch of page p has rejected (status, timeout, parse or network error).
Rejected(p) == st[p] = "thrown"
\* Every one of the MAX_RETRIES + 1 calls for page p was answered 429.
Exhausted(p) == answers429[p] = MAX_RETRIES + 1

\* C1 (as stated): a fatal failure of the fetch of a page k >= 2 aborts the
\* aggregation, which then returns no record list.
C1_FatalPageAborts ==
    \A k \in LaterPages : Rejected(k) => pc # "done" /\ result = NULL

\* C1 (amended): a fatal failure of the fetch of a page k >= 2 does not abort
\* the aggregation: the query never fails because of it, k is not put on the
\* failed-pages list, and the list returned holds no record of page k.
C1_FatalPageAbsorbed ==
    \A k \in LaterPages : Rejected(k) =>
        /\ pc # "failed"
        /\ error = "none"
        /\ k \notin Range(failedPages)
        /\ \A i \in 1..Len(remainingPages) : remainingPages[i].page # k
        /\ pc = "done" => result # NULL /\ Kept(k) \cap Range(result[1]) = {}

C1_Witness ==
    /\ pc = "done"
    /\ result # NULL
    /\ \E k \in LaterPages : Rejected(k) /\ last[k] = "status"

\* C2: when a page k >= 2 is answered 429 on all 6 attempts, the query still
\* returns; the result holds the summaries of page 1 and of every other page
\* fetched successfully, none of page k, and failedPages contains k.
C2_ExhaustedPageTolerated ==
    \A k \in LaterPages : (pc = "done" /\ Exhausted(k)) =>
        /\ result # NULL
        /\ error = "none"
        /\ k \in Range(failedPages)
        /\ Kept(k) \cap Range(result[1]) = {}
        /\ \A q \in Pages : (q = FIRST_PAGE \/ st[q] = "ok") =>
               Kept(q) \subseteq Range(result[1])

C2_Witness ==
    /\ pc = "done"
    /\ upstream.total = Some(120)
    /\ Exhausted(3)
    /\ st[2] = "ok"
    /\ Kept(2) # {}

\* C3: when page 1 cannot be retrieved (its fetch rejects or returns null),
\* the query fails with an error, produces no list, and no request for a
\* page k >= 2 is ever made.
C3_FirstPageFailureFails ==
    (Settled(st[FIRST_PAGE]) /\ st[FIRST_PAGE] # "ok") =>
        /\ pc \in {"firstPage", "failed"}
        /\ pc = "failed" => error # "none"
        /\ result = NULL
        /\ \A k \in LaterPages : started[k] = 0 /\ calls[k] = 0

C3_Witness ==
    /\ pc = "failed"
    /\ st[FIRST_PAGE] = "null"
    /\ error = "first page failed after retries"

\* C4: fetchWithRetry makes at most MAX_RETRIES + 1 = 6 HTTP calls for a
\* page, and when all of them are answered 429 it returns null, it does not
\* throw.
C4_RetryBudget ==
    \A p \in Pages :
        /\ calls[p] <= MAX_RETRIES + 1
        /\ calls[p] <= 6
        /\ Exhausted(p) => st[p] = "null"

C4_Witness ==
    \E p \in Pages : calls[p] = 6 /\ Exhausted(p) /\ st[p] = "null"

\* C5: at most BATCH_SIZE = 5 page requests are in flight (issued and not
\* settled, waiting in a backoff delay included) at any instant.
C5_BoundedInFlight ==
    /\ Cardinality(InFlightPages) <= BATCH_SIZE
    /\ Cardinality(InFlightPages) <= 5

C5_Witness ==
    /\ totalPages > BATCH_SIZE + 1
    /\ Cardinality(InFlightPages) = 5
    /\ \E p \in InFlightPages : st[p] = "backoff"

\* The batch a later page belongs to: pages 2..6 form batch 0, 7..11 batch 1.
BatchIndex(p) == (p - 2) \div BATCH_SIZE

\* C6: no request for a page of a later batch is issued before every page
\* fetch of the earlier batches has settled.
C6_BatchBarrier ==
    \A p, q \in LaterPages :
        (BatchIndex(p) < BatchIndex(q) /\ calls[q] > 0) => Settled(st[p])

C6_Witness ==
    /\ calls[BATCH_SIZE + 2] > 0
    /\ \A p \in 2..(BATCH_SIZE + 1) : Settled(st[p])
    /\ \E p \in 2..(BATCH_SIZE + 1) : delays[p] # <<>>

\* C7: no HTTP request for a page k >= 2 is issued until the page-1 fetch,
\* retries included, has completed successfully.
C7_FirstPageFirst ==
    \A k \in LaterPages :
        calls[k] > 0 => st[FIRST_PAGE] = "ok" /\ pc \notin {"idle", "firstPage"}

C7_Witness ==
    /\ calls[2] > 0
    /\ st[FIRST_PAGE] = "ok"
    /\ answers429[FIRST_PAGE] > 0

\* The total page 1 reports, 0 when the field is missing.
ReportedTotal == IF upstream.total = NULL THEN 0 ELSE upstream.total[1]

\* C8: totalPages is ceil(total / 50), the least n with 50 * n >= total; a
\* fetch is started for exactly the pages 2..totalPages, once each, and for
\* no other page number; total = 120 gives 3 pages and the two fetches of
\* pages 2 and 3.
C8_ExactPages ==
    /\ \A t \in 0..(pageSize * MaxPages) :
          /\ TotalPages(Some(t)) * 50 >= t
          /\ (TotalPages(Some(t)) - 1) * 50 < t
    /\ \A p \in Pages : started[p] <= 1
    /\ pc \in {"loop", "awaitBatch", "done"} =>
        /\ totalPages * 50 >= ReportedTotal
        /\ totalPages > 0 => (totalPages - 1) * 50 < ReportedTotal
        /\ ReportedTotal = 120 => totalPages = 3
        /\ \A p \in LaterPages : started[p] = 1 => p <= totalPages
    /\ pc = "done" =>
        /\ {p \in LaterPages : started[p] = 1} = 2..totalPages
        /\ ReportedTotal = 120 => {p \in Pages : started[p] > 0} = {1, 2, 3}

C8_Witness ==
    /\ pc = "done"
    /\ ReportedTotal = 120
    /\ totalPages = 3
    /\ started[2] = 1 /\ started[3] = 1 /\ started[4] = 0

\* C9: the delay slept before the retry that follows attempt number a is
\* 1000 * 2^a ms: 1000 then 2000 for a page retried twice, and 1000, 2000,
\* 4000, 8000, 16000 for an exhausted page.
C9_BackoffSchedule ==
    \A p \in Pages :
        /\ Len(delays[p]) <= 5
        /\ Len(delays[p]) = attempt[p] + (IF st[p] = "backoff" THEN 1 ELSE 0)
        /\ \A i \in 1..Len(delays[p]) :
              /\ delays[p][i] = 1000 * 2^(i - 1)
              /\ delays[p][i] = <<1000, 2000, 4000, 8000, 16000>>[i]

C9_Witness ==
    \E p \in Pages :
        /\ st[p] = "null"
        /\ delays[p] = <<1000, 2000, 4000, 8000, 16000>>

\* A page retried twice before succeeding slept 1000 ms and then 2000 ms.
C9_RetriedTwice ==
    \E p \in Pages : st[p] = "ok" /\ calls[p] = 3 /\ delays[p] = <<1000, 2000>>

\* C10 (as stated): a call answered with a failure status other than 429
\* makes fetchWithRetry throw, with no backoff and no further call for that
\* page, whatever the status and the status text.
C10_FailureStatusThrows ==
    \A p \in Pages : last[p] = "status" => st[p] = "thrown"

\* C11: when a call runs into the 30 s timeout the request is aborted,
\* fetchWithRetry throws, and the page is not retried.
C11_TimeoutIsFatal ==
    \A p \in Pages : last[p] = "timeout" =>
        /\ st[p] = "thrown"
        /\ aborted[p]
        /\ calls[p] = attempt[p] + 1

C11_Witness ==
    \E p \in Pages :
        /\ last[p] = "timeout"
        /\ st[p] = "thrown"
        /\ aborted[p]
        /\ attempt[p] < MAX_RETRIES

\* C12 (as stated): a 2xx response whose body does not parse makes
\* fetchWithRetry throw, whatever the parse error: no backoff, no further
\* call, no null.
C12_ParseFailureThrows ==
    \A p \in Pages : last[p] = "parse" => st[p] = "thrown"

\* The first image entry of a raw record has a non-null, non-empty original.
HasOriginal(person) ==
    /\ person.images # NULL
    /\ Len(person.images[1]) > 0
    /\ person.images[1][1] # NULL
    /\ person.images[1][1][1].original # NULL
    /\ person.images[1][1][1].original[1] # <<>>

\* The raw record has a non-empty path or a non-empty pathId.
HasLink(person) ==
    \/ person.path # NULL /\ person.path[1] # <<>>
    \/ person.pathId # NULL /\ person.pathId[1] # <<>>

\* The pages whose items the query has in hand when it returns.
RetrievedPages == {q \in Pages : q = FIRST_PAGE \/ st[q] = "ok"}

\* C13: every summary in the list returned has a non-null, non-empty
\* original image URL and a non-empty detail URL, and a raw record with no
\* images array, an empty one, or a first image without a non-empty original
\* yields no summary: the list has one entry per retrieved record that has
\* both an original and a link, and none besides.
C13_OnlyUsableRecords ==
    pc = "done" =>
        /\ \A r \in Range(result[1]) :
              /\ r.image.original # NULL
              /\ r.image.original[1] # <<>>
              /\ r.detailUrl # <<>>
        /\ Len(result[1]) =
              Cardinality({x \in RetrievedPages \X (1..6) :
                              /\ HasOriginal(ItemsOf(x[1])[x[2]])
                              /\ HasLink(ItemsOf(x[1])[x[2]])})
        /\ \A q \in RetrievedPages, i \in 1..6 :
              ~HasOriginal(ItemsOf(q)[i]) => Transform(ItemsOf(q)[i]) = NULL

C13_Witness ==
    /\ pc = "done"
    /\ st[2] = "ok" /\ st[3] = "ok"
    /\ Len(result[1]) = 9

\* The transformer has run on the record and accepted or skipped it.
Transformed == via # "none"
Raw == rawRecord[1]

\* C14 (as stated): for a raw record with a valid image, a path that is
\* present (not null) gives the detail URL origin + path; otherwise the
\* detail URL is pathId; the record is rejected when neither gives a
\* non-empty string.
C14_PathPresentGivesOriginPath ==
    (Transformed /\ HasOriginal(Raw)) =>
        IF Raw.path # NULL
        THEN summary # NULL /\ summary[1].detailUrl = SiteOrigin \o Raw.path[1]
        ELSE IF Raw.pathId # NULL /\ Raw.pathId[1] # <<>>
        THEN summary # NULL /\ summary[1].detailUrl = Raw.pathId[1]
        ELSE summary = NULL

\* C14 (amended): for a raw record with a valid image, a path that is a
\* non-empty string gives the detail URL https://www.fbi.gov + path; with a
\* null or empty path the detail URL is pathId; the record is rejected when
\* pathId is null or empty as well.
C14_DetailUrl ==
    (Transformed /\ HasOriginal(Raw)) =>
        IF Raw.path # NULL /\ Raw.path[1] # <<>>
        THEN /\ summary # NULL
             /\ summary[1].detailUrl = SiteOrigin \o Raw.path[1]
             /\ summary[1].detailUrl =
                  <<"h","t","t","p","s",":","/","/","w","w","w",".","f","b","i",
                    ".","g","o","v">> \o Raw.path[1]
        ELSE IF Raw.pathId # NULL /\ Raw.pathId[1] # <<>>
        THEN summary # NULL /\ summary[1].detailUrl = Raw.pathId[1]
        ELSE summary = NULL

C14_Witness ==
    /\ Transformed
    /\ HasOriginal(Raw)
    /\ Raw.path = Some(<<>>)
    /\ Raw.pathId # NULL /\ Raw.pathId[1] # <<>>
    /\ summary # NULL
    /\ summary[1].detailUrl = Raw.pathId[1]

\* C19: the name of a summary is the title of the raw record when the title
\* is present, empty or not, and "Unknown" when it is null; its image is the
\* first image entry, whatever the later entries are.
C19_NameAndFirstImage ==
    (Transformed /\ summary # NULL) =>
        /\ Raw.title # NULL => summary[1].name = Raw.title[1]
        /\ Raw.title = NULL => summary[1].name = <<"U","n","k","n","o","w","n">>
        /\ summary[1].image = Raw.images[1][1][1]

C19_Witness ==
    /\ Transformed
    /\ summary # NULL
    /\ Raw.title = NULL
    /\ Len(Raw.images[1]) = 2
    /\ summary[1].image # Raw.images[1][2][1]

\* A present but empty title is kept as the name.
C19_EmptyTitleKept ==
    /\ Transformed
    /\ summary # NULL
    /\ Raw.title = Some(<<>>)
    /\ summary[1].name = <<>>

\* The upstream items of the retrieved pages p, p + 1, ..., in page order.
RECURSIVE ItemsInPageOrder(_)
ItemsInPageOrder(p) ==
    IF p \notin Pages THEN <<>>
    ELSE (IF p \in RetrievedPages THEN ItemsOf(p) ELSE <<>>)
         \o ItemsInPageOrder(p + 1)

\* C15: the list returned is in scheduling order: the records of page 1,
\* then those of the retrieved pages by ascending page number, each page in
\* upstream item order, whatever the order the fetches of a batch settled in.
C15_PageOrder ==
    pc = "done" => result[1] = TransformAll(ItemsInPageOrder(FIRST_PAGE))

\* Page 2 slept a backoff delay while page 3 was answered at its first call.
C15_Witness ==
    /\ pc = "done"
    /\ st[2] = "ok" /\ delays[2] # <<>>
    /\ st[3] = "ok" /\ calls[3] = 1
    /\ Len(result[1]) = 9

\* The number of raw records the query has in hand when it returns.
RetrievedCount == Len(ItemsInPageOrder(FIRST_PAGE))

\* C16: retrieving fewer raw records than the total page 1 reports never
\* makes the query fail: once page 1 is retrieved the query does not throw,
\* and with a shortfall it logs the missing count and still returns the list
\* built from the retrieved pages.
C16_ShortfallIsNotAnError ==
    /\ st[FIRST_PAGE] = "ok" => pc # "failed" /\ error = "none"
    /\ pc = "done" =>
        /\ (shortfall # NULL) <=> (RetrievedCount < ReportedTotal)
        /\ shortfall # NULL => shortfall[1] = ReportedTotal - RetrievedCount
        /\ result = Some(TransformAll(ItemsInPageOrder(FIRST_PAGE)))

C16_Witness ==
    /\ pc = "done"
    /\ shortfall # NULL
    /\ failedPages # <<>>
    /\ result # NULL /\ result[1] # <<>>

\* A listing retrieved in full raises no warning.
C16_NoShortfall ==
    /\ pc = "done"
    /\ shortfall = NULL
    /\ ReportedTotal = 1

\* The poster_classification the caller passed: NULL when there is no
\* input or the field is null.
CallerFilter == IF input = NULL THEN NULL ELSE input[1].poster_classification

RequestedPages == {q \in Pages : calls[q] > 0}

\* C18 (as stated): every page request of an aggregation, retries included,
\* carries the same pageSize and the caller's poster_classification value
\* unchanged; only the page number differs.
C18_FilterPassedUnchanged ==
    /\ \A r \in requests :
          /\ r.pageSize = <<"5", "0">>
          /\ r.poster_classification = CallerFilter
    /\ {r.page : r \in requests} = {String(q) : q \in RequestedPages}
    /\ Cardinality(requests) = Cardinality(RequestedPages)

\* C18 (amended): every page request of an aggregation, retries included,
\* carries the same pageSize 50 and the same filter: the caller's
\* poster_classification unchanged when it is a non-empty string, and no
\* poster_classification parameter when the caller passed none, null or the
\* empty string; only the page number differs.
C18_FilterOnEveryRequest ==
    /\ \A r \in requests :
          /\ r.pageSize = <<"5", "0">>
          /\ r.poster_classification =
                IF CallerFilter # NULL /\ CallerFilter[1] # <<>>
                THEN CallerFilter ELSE NULL
    /\ {r.page : r \in requests} = {String(q) : q \in RequestedPages}
    /\ Cardinality(requests) = Cardinality(RequestedPages)

C18_Witness ==
    /\ CallerFilter = Some(<<"t","e","n">>)
    /\ Cardinality(requests) = 3
    /\ \E q \in LaterPages : calls[q] > 1
    /\ \A r \in requests : r.poster_classification = Some(<<"t","e","n">>)

\* The pages of the batch being awaited.
CurrentBatch ==
    IF pc = "awaitBatch" THEN BatchPages(batchStart, batchEnd) ELSE {}

\* C21: while a page of a batch waits in its backoff delay, every other page
\* of the batch can take its next step (receive the answer of its request,
\* or end its own delay), and the await of the batch resumes exactly when
\* every page of the batch has settled, so not before the slowest one.
C21_BackoffBlocksOnlyItsPage ==
    /\ \A p \in CurrentBatch : st[p] = "backoff" =>
          /\ ENABLED TimerFires(p)
          /\ \A q \in CurrentBatch \ {p} :
                /\ st[q] = "inflight" => ENABLED Respond(q)
                /\ st[q] = "backoff" => ENABLED TimerFires(q)
          /\ ~ENABLED CollectBatch
    /\ pc = "awaitBatch" =>
          ((ENABLED CollectBatch) <=> \A p \in CurrentBatch : Settled(st[p]))

C21_Witness ==
    /\ pc = "awaitBatch"
    /\ \E p, q \in CurrentBatch :
          /\ st[p] = "backoff" /\ attempt[p] = 1
          /\ st[q] = "ok" /\ answers429[q] = 2

Terminated == pc \in {"done", "failed"}

\* C22: when every HTTP call is answered or timed out and every backoff
\* timer fires, the query eventually ends, returning a list or failing, and
\* at no time has a page's fetchWithRetry made more than MAX_RETRIES + 1
\* calls or passed attempt MAX_RETRIES + 1.
C22_Terminates ==
    /\ <>Terminated
    /\ [](\A p \in Pages : /\ calls[p] <= started[p] * (MAX_RETRIES + 1)
                           /\ attempt[p] <= MAX_RETRIES + 1
                           /\ started[p] <= 1)
    /\ [](Terminated => (result # NULL) # (error # "none"))

C22_Witness ==
    /\ pc = "done"
    /\ result # NULL
    /\ \E p \in LaterPages : st[p] = "null" /\ calls[p] = MAX_RETRIES + 1
    /\ \E p \in LaterPages : st[p] = "ok" /\ calls[p] > 1

\* How many entries of remainingPages are page k.
Accumulated(k) ==
    Cardinality({i \in 1..Len(remainingPages) : remainingPages[i].page = k})

\* The results of page k's batch have been sorted into the two lists.
Collected(k) == started[k] > 0 /\ k \notin CurrentBatch

\* C23: a page fetch answered 429 on some attempts and then answered with a
\* page is a success: once its batch is collected the page is in
\* remainingPages exactly once (page 1: it is firstPageData and the query
\* goes on), its number is never in failedPages, and from the successful
\* response on no further HTTP call is made for it.
C23_RetriedSuccessCounts ==
    /\ [](\A k \in LaterPages : (st[k] = "ok" /\ answers429[k] > 0) =>
             /\ k \notin Range(failedPages)
             /\ Accumulated(k) = (IF Collected(k) THEN 1 ELSE 0)
             /\ \A i \in 1..Len(remainingPages) :
                   remainingPages[i].page = k => remainingPages[i] = data[k][1])
    /\ []((st[FIRST_PAGE] = "ok" /\ answers429[FIRST_PAGE] > 0
              /\ pc # "firstPage") =>
             firstPageData = data[FIRST_PAGE] /\ pc # "failed")
    /\ [][\A k \in Pages : st[k] = "ok" =>
             st'[k] = "ok" /\ calls'[k] = calls[k] /\ started'[k] = started[k]]_vars

C23_Witness ==
    /\ pc = "done"
    /\ \E k \in LaterPages :
          /\ st[k] = "ok" /\ answers429[k] = MAX_RETRIES
          /\ Accumulated(k) = 1
          /\ Kept(k) \subseteq Range(result[1])
    /\ answers429[FIRST_PAGE] > 0

\* The page numbers held by remainingPages, in order.
AccumulatedPages == [i \in 1..Len(remainingPages) |-> remainingPages[i].page]

NoDuplicates(s) == \A i, j \in 1..Len(s) : s[i] = s[j] => i = j

\* The part of C24 that does not depend on the bound: the accumulated pages
\* and failedPages are disjoint, a page number is in failedPages only if its
\* fetch returned null after its MAX_RETRIES + 1 calls, and no page is twice
\* in either list.
ListsConsistent ==
    /\ Range(AccumulatedPages) \cap Range(failedPages) = {}
    /\ \A k \in Range(failedPages) :
          /\ k \in LaterPages
          /\ st[k] = "null" /\ data[k] = NULL
          /\ calls[k] = MAX_RETRIES + 1
    /\ \A k \in Range(AccumulatedPages) : k \in LaterPages /\ st[k] = "ok"
    /\ NoDuplicates(AccumulatedPages)
    /\ NoDuplicates(failedPages)

\* The query has computed totalPages.
InLoop == pc \in {"loop", "awaitBatch", "done"}

\* C24 (as stated): the two lists are consistent and together never hold
\* more than totalPages - 1 entries.
C24_ListsWithinTotalPagesMinusOne ==
    /\ ListsConsistent
    /\ InLoop => Len(remainingPages) + Len(failedPages) <= totalPages - 1

\* C24 (amended): the two lists are consistent and together never hold more
\* entries than there are later pages: totalPages - 1 when totalPages >= 1,
\* and none when totalPages is 0 (a total of 0 or a missing total).
C24_ListsWithinLaterPages ==
    /\ ListsConsistent
    /\ Len(remainingPages) + Len(failedPages) <=
          (IF InLoop /\ totalPages >= 1 THEN totalPages - 1 ELSE 0)

C24_Witness ==
    /\ pc = "done"
    /\ totalPages = 3
    /\ failedPages = <<2>>
    /\ AccumulatedPages = <<3>>

C24_EmptyListing ==
    /\ pc = "done"
    /\ totalPages = 0
    /\ Len(remainingPages) + Len(failedPages) = 0

\* Page 1 was retrieved and reports at most one page of records.
SinglePage == firstPageData # NULL /\ TotalOrZero(firstPageData) <= pageSize

\* C25: when page 1 reports a total of 0, no total, or a total of at most
\* pageSize, no fetch of a page k >= 2 is started or requested, both lists
\* stay empty, and the list returned is the transform of page 1's items.
C25_SinglePageListing ==
    SinglePage =>
        /\ totalPages <= 1
        /\ \A k \in LaterPages : started[k] = 0 /\ calls[k] = 0
        /\ \A r \in requests : r.page = String(FIRST_PAGE)
        /\ pc # "awaitBatch"
        /\ remainingPages = <<>> /\ failedPages = <<>>
        /\ pc = "done" =>
              result = Some(TransformAll(firstPageData[1].items))

C25_Witness ==
    /\ pc = "done"
    /\ firstPageData # NULL
    /\ firstPageData[1].total = Some(pageSize)
    /\ Len(result[1]) > 0

C25_NoTotal ==
    /\ pc = "done"
    /\ firstPageData # NULL
    /\ firstPageData[1].total = NULL
    /\ result = Some(TransformAll(ItemsOf(FIRST_PAGE)))

\* Everything card c holds.
CardOf(c) == <<imageLoaded[c], imageError[c], img[c], natural[c], imgEvent[c],
               effectDue[c], dirty[c], shown[c], reloads[c]>>

\* C26: once imageError is set for a card it stays set, every render from
\* then on returns null and removes the image, a card that shows nothing
\* never shows anything again whatever events and new sources follow, and a
\* step of one card changes nothing of any other card.
C26_ErrorIsAbsorbing ==
    /\ [][\A c \in Cards :
            /\ imageError[c] => imageError'[c]
            /\ (imageError[c] /\ (~dirty'[c] \/ shown'[c] # shown[c])) =>
                  shown'[c] = "null" /\ img'[c] = "none"
            /\ shown[c] = "null" => shown'[c] = "null"]_vars
    /\ [](\A c \in Cards :
            /\ shown[c] = "null" => imageError[c] /\ img[c] = "none"
            /\ (imageError[c] /\ ~dirty[c]) => shown[c] = "null")
    /\ [][\A c, d \in Cards :
            (c # d /\ CardOf(c)' # CardOf(c)) => CardOf(d)' = CardOf(d)]_vars

C26_Witness ==
    \E c, d \in Cards :
        /\ imageError[c] /\ imageLoaded[c] /\ shown[c] = "null"
        /\ reloads[c] = MaxReloads /\ ~effectDue[c]
        /\ ~imageError[d] /\ shown[d] = "image"

\* C27: in both client loaders, when every fetch ends, loading eventually
\* becomes false and stays false, whichever way the loader ends (all pages,
\* a 429 on page 1, a 429 on a later page, a thrown error); and once a
\* response had status 429 no further request is made.
C27_LoadingEndsAndStopsOn429 ==
    /\ <>[](~loading)
    /\ [](homePc = "done" <=> ~loading)
    /\ [][seen429 => \A p \in Pages : homeSt'[p] = "inflight" =>
                                         homeSt[p] = "inflight"]_vars

C27_Witness ==
    /\ loader = "batched"
    /\ ~loading
    /\ homeError = NULL
    /\ homeTotalPages = MaxPages
    /\ homeSt[3] = "null" /\ homeSt[4] = "value" /\ homeSt[2] = "rejected"
    /\ wantedPersons = <<1>>
    /\ homeSt[MaxPages] = "idle"

C27_LaterPage429 ==
    /\ loader = "sequential"
    /\ ~loading
    /\ homeError = Some("rate limited, partial")
    /\ wantedPersons = <<1, 2>>

C27_FirstPage429 == ~loading /\ homeError = Some("rate limited")

C27_Thrown == ~loading /\ homeError = Some("thrown") /\ wantedPersons # <<>>

C27_Success ==
    /\ ~loading /\ homeError = NULL /\ ~seen429
    /\ wantedPersons = [i \in 1..MaxPages |-> i]

\* Page 1 was retrieved: the fetch of page 1 returned a page.
FirstPageRetrieved == st[FIRST_PAGE] = "ok"

\* C28: the query throws only when it has no data, that is when page 1 was
\* not retrieved; once page 1 is retrieved it never fails, whatever later
\* pages exhaust their retries, and what it returns is a list that holds the
\* summaries of page 1 and of every page accumulated and none of a failed
\* page; a thrown query has no list and a returned one has no error.
C28_ThrowsOnlyWithoutData ==
    /\ pc = "failed" =>
          /\ ~FirstPageRetrieved /\ Settled(st[FIRST_PAGE])
          /\ firstPageData = NULL
          /\ error # "none" /\ result = NULL
          /\ \A k \in LaterPages : calls[k] = 0
    /\ FirstPageRetrieved => pc # "failed" /\ error = "none"
    /\ pc = "done" =>
          /\ FirstPageRetrieved
          /\ result # NULL /\ error = "none"
          /\ Kept(FIRST_PAGE) \subseteq Range(result[1])
          /\ \A k \in Range(failedPages) : Kept(k) \cap Range(result[1]) = {}
          /\ \A k \in Range(AccumulatedPages) : Kept(k) \subseteq Range(result[1])

C28_Witness ==
    /\ pc = "done"
    /\ totalPages = 3
    /\ failedPages = <<3>>
    /\ \A k \in LaterPages : ~Rejected(k)
    /\ result = Some(TransformAll(ItemsOf(FIRST_PAGE) \o ItemsOf(2)))
    /\ shortfall # NULL

C28_TotalFailure ==
    /\ pc = "failed"
    /\ st[FIRST_PAGE] = "thrown"
    /\ result = NULL

====
